---- MODULE Spec2Model ----
(***************************************************************************)
(* Model of streamlit_app.py: one script that Streamlit re-executes from   *)
(* top to bottom after every user interaction.  The widgets keep their     *)
(* values between executions; every other name of the script is rebuilt   *)
(* by each execution.  The script first runs the scenario view            *)
(* ("with tab2", lines 11-146) and then the ledger view ("with tab1",     *)
(* lines 148-234).                                                        *)
(*                                                                         *)
(* Amounts are whole euros.  A simulated amount base * (1 + pct/100.0) is *)
(* kept exactly, in hundredths of a euro: base * (100 + pct).  Binary     *)
(* floating-point rounding of the products is not modelled.  A ratio is   *)
(* kept as an IEEE-754 outcome: a finite quotient num/den, or one of the  *)
(* non-finite values the float division yields on a zero divisor.         *)
(***************************************************************************)
EXTENDS Integers, Sequences, FiniteSets, TLC

VARIABLES
    pc,                 \* position of the current execution of the script
    page,               \* elements the current execution has put on the page
    slider_ca,          \* widget "Variation globale CA (%)"
    slider_charges,     \* widget "Variation globale Charges (%)"
    checkbox_per_year,  \* widget "Activer variations par année"
    input_ca,           \* widgets "CA <y> (%)", key ca_<y>
    input_charges,      \* widgets "Charges <y> (%)", key ch_<y>
    button,             \* the preset button whose press triggered this execution
    prev_button,        \* history: the value of button in the execution before
    global_ca_pct,      \* script variables of the scenario view ...
    global_charges_pct,
    use_per_year,
    per_year_ca,
    per_year_charges,
    df_simu,            \* the scenario table df (lines 69-84)
    summary,            \* "Marge % simulée" of the summary (line 122)
    table,              \* marge_pct_simu column of st.dataframe (lines 127-134)
    csv,                \* marge_pct_simu column of the scenario export (line 140)
    source,             \* rows of bp_forecast_tabulaire.csv
    cat_choice,         \* widget "Choisir la catégorie à modifier"
    editor,             \* rows held by the st.data_editor widget
    df_ledger,          \* script variables of the ledger view ...
    edited_df,
    df_ca_sum,
    ledger_csv          \* rows of the ledger export (lines 229-234)

scenario_widgets == <<slider_ca, slider_charges, checkbox_per_year, input_ca,
                      input_charges>>
scenario_out == <<global_ca_pct, global_charges_pct, use_per_year, per_year_ca,
                  per_year_charges, df_simu, summary, table, csv>>
ledger_widgets == <<cat_choice, editor>>
ledger_out == <<df_ledger, edited_df, df_ca_sum, ledger_csv>>
vars == <<pc, page, button, prev_button, scenario_widgets, scenario_out, source, ledger_widgets,
          ledger_out>>

(***************************************************************************)
(* Bounds of the model.                                                    *)
(***************************************************************************)
NumYears == 2        \* rows of the base series that are modelled (the script has 6)
MaxRows == 2         \* most rows the data editor holds

(***************************************************************************)
(* Scenario view: base data (lines 21-34).                                 *)
(***************************************************************************)
FirstYear == 2023

YEARS == FirstYear .. (FirstYear + NumYears - 1)

\* np.round(linspace(800000, 1200000, 6) * (1 + normal(0, 0.03))) with seed 42
base_ca(y) ==
    CASE y = 2023 -> 811921
      [] y = 2024 -> 876350
      [] y = 2025 -> 978653
      [] y = 2026 -> 1087519
      [] y = 2027 -> 1112132
      [] OTHER    -> 1191571

\* np.round(base_ca * linspace(0.65, 0.55, 6) * (1 + normal(0, 0.02)))
base_charges(y) ==
    CASE y = 2023 -> 544417
      [] y = 2024 -> 560575
      [] y = 2025 -> 591373
      [] y = 2026 -> 648599
      [] y = 2027 -> 628040
      [] OTHER    -> 649260

df_base == [y \in YEARS |-> [annee |-> y, ca |-> base_ca(y), charges |-> base_charges(y)]]

LastYear == CHOOSE y \in YEARS : \A z \in YEARS : z <= y

(***************************************************************************)
(* Values the user gives to the widgets.                                   *)
(***************************************************************************)
SliderMin == -50
SliderMax == 200
SliderValues == {SliderMin, 0, SliderMax}
InputCaValues == {-100, 0, 5}
InputChargesValues == {-150, -100, 0}
WidgetDefault == 0

Zeros == [y \in YEARS |-> 0]

None == [kind |-> "None"]

(***************************************************************************)
(* Scenario view: effective parameters (lines 36-66).                      *)
(***************************************************************************)
PresetChargesPct == -20
PresetCaPct == 10

EffectiveChargesPct_AnyPreset(b, slider) ==
    IF b # "none" THEN PresetChargesPct ELSE slider

\* line 39, then lines 63-64: the press overwrites the value read from the slider
EffectiveChargesPct(b, slider) == IF b = "cost_cut_20" THEN PresetChargesPct ELSE slider

\* line 38, then lines 65-66
EffectiveCaPct(b, slider) == IF b = "revenue_up_10" THEN PresetCaPct ELSE slider

\* lines 46-57: the inputs are read when the box is ticked, zeros otherwise
PerYear(use, inputs) == IF use THEN inputs ELSE Zeros

\* The number inputs are created only when the box is ticked (lines 48-52); a
\* widget the execution does not create loses its value and starts again from
\* its default.
KeptInputs(use, inputs) == IF use THEN inputs ELSE [y \in YEARS |-> WidgetDefault]

(***************************************************************************)
(* Scenario view: the simulation (lines 68-84).                            *)
(***************************************************************************)
Scaled_NoOne(base, pct) == base * pct

\* base * (1 + pct / 100.0), in hundredths
Scaled(base, pct) == base * (100 + pct)

CaSimu_Combined(r, gca, use, pyca) ==
    IF use THEN r.ca * (100 + gca + pyca[r.annee]) ELSE r.ca * (100 + gca)

\* lines 70 and 75
CaSimu(r, gca, use, pyca) ==
    LET global == Scaled(r.ca, gca)
    IN  IF use THEN Scaled(r.ca, pyca[r.annee]) ELSE global

\* lines 71 and 76
ChargesSimu(r, gch, use, pych) ==
    LET global == Scaled(r.charges, gch)
    IN  IF use THEN Scaled(r.charges, pych[r.annee]) ELSE global

\* line 83
MargeSimu(ca_simu, charges_simu) == ca_simu - charges_simu

MargePctSimu_ZeroOnZero(marge_simu, ca_simu) ==
    IF ca_simu # 0 THEN [kind |-> "finite", num |-> marge_simu, den |-> ca_simu]
    ELSE [kind |-> "finite", num |-> 0, den |-> 1]

\* line 84: float division of two columns; a zero divisor raises nothing and
\* yields a signed infinity, or NaN for 0/0
MargePctSimu(marge_simu, ca_simu) ==
    IF ca_simu # 0 THEN [kind |-> "finite", num |-> marge_simu, den |-> ca_simu]
    ELSE IF marge_simu > 0 THEN [kind |-> "inf"]
    ELSE IF marge_simu < 0 THEN [kind |-> "-inf"]
    ELSE [kind |-> "nan"]

ComputeSimulation(gca, gch, use, pyca, pych) ==
    [y \in YEARS |->
        LET r == df_base[y]
            ca_simu == CaSimu(r, gca, use, pyca)
            charges_simu == ChargesSimu(r, gch, use, pych)
            marge_simu == MargeSimu(ca_simu, charges_simu)
        IN  [annee |-> y, ca |-> r.ca, charges |-> r.charges,
             ca_simu |-> ca_simu, charges_simu |-> charges_simu,
             marge_simu |-> marge_simu,
             marge_pct_simu |-> MargePctSimu(marge_simu, ca_simu)]]

(***************************************************************************)
(* Scenario view: what is shown and exported (lines 109-141).  The digits  *)
(* of a finite number are not modelled: it is shown as a number.           *)
(***************************************************************************)
\* line 122: f"{x*100:.1f} %"
FormatSummary(x) ==
    CASE x.kind = "finite" -> [text |-> "number %", of |-> x]
      [] x.kind = "inf"    -> [text |-> "inf %"]
      [] x.kind = "-inf"   -> [text |-> "-inf %"]
      [] OTHER             -> [text |-> "nan %"]

\* line 133: "{:.1%}"
FormatTable(x) ==
    CASE x.kind = "finite" -> [text |-> "number%", of |-> x]
      [] x.kind = "inf"    -> [text |-> "inf%"]
      [] x.kind = "-inf"   -> [text |-> "-inf%"]
      [] OTHER             -> [text |-> "nan%"]

\* line 138: DataFrame.to_csv writes a missing value (NaN) as an empty field
FormatCsv(x) ==
    CASE x.kind = "finite" -> [text |-> "number", of |-> x]
      [] x.kind = "inf"    -> [text |-> "inf"]
      [] x.kind = "-inf"   -> [text |-> "-inf"]
      [] OTHER             -> [text |-> ""]

NotRun == [kind |-> "not run"]

\* lines 98, 107, 110-111, 114, 127, 141
ScenarioElements == {"fig", "fig2", "metric", "summary", "dataframe",
                     "scenario_simulation.csv"}

\* lines 156, 162, 223, 226, 229
LedgerElements == {"selectbox", "data_editor", "plotly_chart", "line_chart",
                   "scenario_edite.csv"}

\* "with tab2": lines 11-146
ScenarioView ==
    /\ pc = "tab2"
    /\ LET gca == EffectiveCaPct(button, slider_ca)
           gch == EffectiveChargesPct(button, slider_charges)
           pyca == PerYear(checkbox_per_year, input_ca)
           pych == PerYear(checkbox_per_year, input_charges)
           df == ComputeSimulation(gca, gch, checkbox_per_year, pyca, pych)
       IN  /\ global_ca_pct' = gca
           /\ global_charges_pct' = gch
           /\ use_per_year' = checkbox_per_year
           /\ per_year_ca' = pyca
           /\ per_year_charges' = pych
           /\ df_simu' = df
           /\ summary' = FormatSummary(df[LastYear].marge_pct_simu)
           /\ table' = [y \in YEARS |-> FormatTable(df[y].marge_pct_simu)]
           /\ csv' = [y \in YEARS |-> FormatCsv(df[y].marge_pct_simu)]
    /\ input_ca' = KeptInputs(checkbox_per_year, input_ca)
    /\ input_charges' = KeptInputs(checkbox_per_year, input_charges)
    /\ pc' = "tab1"
    /\ page' = page \cup ScenarioElements
    /\ UNCHANGED <<button, prev_button, slider_ca, slider_charges, checkbox_per_year, source,
                   ledger_widgets, ledger_out>>

(***************************************************************************)
(* Interactions with the scenario view.  Each one starts a new execution   *)
(* of the script, which supersedes the one in progress; a button reads     *)
(* True only in the execution its press started.                           *)
(***************************************************************************)
NewRun ==
    /\ pc' = "tab2"
    /\ page' = {}
    /\ prev_button' = button
    /\ global_ca_pct' = NotRun
    /\ global_charges_pct' = NotRun
    /\ use_per_year' = NotRun
    /\ per_year_ca' = NotRun
    /\ per_year_charges' = NotRun
    /\ df_simu' = NotRun
    /\ summary' = NotRun
    /\ table' = NotRun
    /\ csv' = NotRun
    /\ df_ledger' = NotRun
    /\ edited_df' = NotRun
    /\ df_ca_sum' = NotRun
    /\ ledger_csv' = NotRun

\* line 38
MoveSliderCa ==
    /\ \E v \in SliderValues \ {slider_ca} : slider_ca' = v
    /\ button' = "none"
    /\ NewRun
    /\ UNCHANGED <<slider_charges, checkbox_per_year, input_ca, input_charges,
                   source, ledger_widgets>>

\* line 39
MoveSliderCharges ==
    /\ \E v \in SliderValues \ {slider_charges} : slider_charges' = v
    /\ button' = "none"
    /\ NewRun
    /\ UNCHANGED <<slider_ca, checkbox_per_year, input_ca, input_charges,
                   source, ledger_widgets>>

\* line 43
TogglePerYear ==
    /\ checkbox_per_year' = ~checkbox_per_year
    /\ button' = "none"
    /\ NewRun
    /\ UNCHANGED <<slider_ca, slider_charges, input_ca, input_charges,
                   source, ledger_widgets>>

\* line 51: the inputs are on the page only while the box is ticked
EditInputCa ==
    /\ checkbox_per_year
    /\ pc # "tab2"
    /\ \E y \in YEARS : \E v \in InputCaValues \ {input_ca[y]} :
          input_ca' = [input_ca EXCEPT ![y] = v]
    /\ button' = "none"
    /\ NewRun
    /\ UNCHANGED <<slider_ca, slider_charges, checkbox_per_year, input_charges,
                   source, ledger_widgets>>

\* line 52
EditInputCharges ==
    /\ checkbox_per_year
    /\ pc # "tab2"
    /\ \E y \in YEARS : \E v \in InputChargesValues \ {input_charges[y]} :
          input_charges' = [input_charges EXCEPT ![y] = v]
    /\ button' = "none"
    /\ NewRun
    /\ UNCHANGED <<slider_ca, slider_charges, checkbox_per_year, input_ca,
                   source, ledger_widgets>>

PressCostCut_Persisted ==
    /\ button' = "cost_cut_20"
    /\ slider_charges' = PresetChargesPct
    /\ NewRun
    /\ UNCHANGED <<slider_ca, checkbox_per_year, input_ca, input_charges, source,
                   ledger_widgets>>

\* line 63
PressCostCut ==
    /\ button' = "cost_cut_20"
    /\ NewRun
    /\ UNCHANGED <<scenario_widgets, source, ledger_widgets>>

\* line 65
PressRevenueUp ==
    /\ button' = "revenue_up_10"
    /\ NewRun
    /\ UNCHANGED <<scenario_widgets, source, ledger_widgets>>

\* the page is reloaded or re-executed without any change of a widget
Rerun ==
    /\ pc \in {"done", "error"}
    /\ button' = "none"
    /\ NewRun
    /\ UNCHANGED <<scenario_widgets, source, ledger_widgets>>

(***************************************************************************)
(* Ledger view: cells.  A date cell is the text of the file (its fields    *)
(* between the slashes), a date, None (a cell the user left empty) or NaT. *)
(* An amount cell is a number, None or NaN.                                *)
(***************************************************************************)
NaT == [kind |-> "NaT"]
NaN == [kind |-> "NaN"]
Text(fields) == [kind |-> "text", fields |-> fields]
Date(y, m, d) == [kind |-> "date", y |-> y, m |-> m, d |-> d]
Num(v) == [kind |-> "num", v |-> v]
CA == "Chiffre d'affaires"
Charges == "Charges"
NoCategorie == "<NA>"

IsLeap(y) == (y % 4 = 0 /\ y % 100 # 0) \/ y % 400 = 0

DaysInMonth(m, y) ==
    IF m = 2 THEN (IF IsLeap(y) THEN 29 ELSE 28)
    ELSE IF m \in {4, 6, 9, 11} THEN 30 ELSE 31

\* line 153: pd.to_datetime(format="%d/%m/%Y", errors="coerce")
ParseDate(cell) ==
    IF cell.kind # "text" THEN NaT
    ELSE LET f == cell.fields
         IN  IF /\ Len(f) = 3
                /\ f[3] \in 1..9999
                /\ f[2] \in 1..12
                /\ f[1] \in 1..DaysInMonth(f[2], f[3])
             THEN Date(f[3], f[2], f[1])
             ELSE NaT

\* lines 152-153
LoadLedger(src) == [i \in 1..Len(src) |-> [src[i] EXCEPT !.date = ParseDate(@)]]

\* df["categorie"].unique(): in order of first appearance
RECURSIVE Unique(_, _)
Unique(rows, seen) ==
    IF rows = <<>> THEN <<>>
    ELSE IF Head(rows).categorie \in seen THEN Unique(Tail(rows), seen)
    ELSE <<Head(rows).categorie>> \o Unique(Tail(rows), seen \cup {Head(rows).categorie})

Categories(df) == Unique(df, {})

\* line 159
FilterCategory(df, cat) == SelectSeq(df, LAMBDA r : r.categorie = cat)

\* lines 162-171: the table as loaded until the user edits it, then the
\* edited table
DataEditor(df_filtered, widget) == IF widget.pristine THEN df_filtered ELSE widget.rows

\* line 175: a date stays, anything else becomes NaT
CoerceDate(cell) ==
    CASE cell.kind = "date" -> cell
      [] cell.kind = "text" -> ParseDate(cell)
      [] OTHER -> NaT

\* line 176
CoerceValeur(cell) == IF cell.kind = "num" THEN cell ELSE NaN

Coerce(rows) ==
    [i \in 1..Len(rows) |->
        [date |-> CoerceDate(rows[i].date), categorie |-> rows[i].categorie,
         valeur |-> CoerceValeur(rows[i].valeur)]]

(***************************************************************************)
(* Ledger view: aggregation (lines 178-186).                               *)
(***************************************************************************)
\* the order of the group keys (sort=True); a missing key sorts last
DateBefore(a, b) ==
    IF a.kind # "date" THEN FALSE
    ELSE IF b.kind # "date" THEN TRUE
    ELSE \/ a.y < b.y
         \/ a.y = b.y /\ a.m < b.m
         \/ a.y = b.y /\ a.m = b.m /\ a.d < b.d

\* sum() skips NaN
Addend(cell) == IF cell.kind = "num" THEN cell.v ELSE 0

RECURSIVE AddToGroup_Overwrite(_, _, _)
AddToGroup_Overwrite(groups, date, amount) ==
    IF groups = <<>> THEN <<[date |-> date, valeur |-> amount]>>
    ELSE IF Head(groups).date = date
         THEN <<[date |-> date, valeur |-> amount]>> \o Tail(groups)
    ELSE IF DateBefore(date, Head(groups).date)
         THEN <<[date |-> date, valeur |-> amount]>> \o groups
    ELSE <<Head(groups)>> \o AddToGroup_Overwrite(Tail(groups), date, amount)

\* the group of key `date` gets one more amount; groups are kept in
\* ascending order of their key
RECURSIVE AddToGroup(_, _, _)
AddToGroup(groups, date, amount) ==
    IF groups = <<>> THEN <<[date |-> date, valeur |-> amount]>>
    ELSE IF Head(groups).date = date
         THEN <<[date |-> date, valeur |-> Head(groups).valeur + amount]>> \o Tail(groups)
    ELSE IF DateBefore(date, Head(groups).date)
         THEN <<[date |-> date, valeur |-> amount]>> \o groups
    ELSE <<Head(groups)>> \o AddToGroup(Tail(groups), date, amount)

IsGroupKey_KeepMissing(cell) == TRUE

\* groupby drops the rows whose key is missing (dropna=True)
IsGroupKey(cell) == cell.kind = "date"

\* line 182: groupby("date", as_index=False)["valeur"].sum()
RECURSIVE GroupBySum(_, _)
GroupBySum(rows, groups) ==
    IF rows = <<>> THEN groups
    ELSE LET r == Head(rows)
         IN  IF IsGroupKey(r.date)
             THEN GroupBySum(Tail(rows), AddToGroup(groups, r.date, Addend(r.valeur)))
             ELSE GroupBySum(Tail(rows), groups)

Thousand == 1000

Round_HalfUp(n, d) ==
    LET q == n \div d
        r == n % d
    IN  IF 2 * r < d THEN q ELSE q + 1

\* lines 184-185: Series.round(0) rounds a half to the even neighbour
Round(n, d) ==
    LET q == n \div d
        r == n % d
    IN  IF 2 * r < d THEN q
        ELSE IF 2 * r > d THEN q + 1
        ELSE IF q % 2 = 0 THEN q ELSE q + 1

\* line 186
Label(k) == ToString(k) \o " K€"

\* lines 179-186
Aggregate(edited) ==
    LET df_ca == SelectSeq(edited, LAMBDA r : r.categorie = CA)
        sums == GroupBySum(df_ca, <<>>)
    IN  [i \in 1..Len(sums) |->
            LET k == Round(sums[i].valeur, Thousand)
            IN  [date |-> sums[i].date, valeur |-> sums[i].valeur,
                 valeur_k |-> k, valeur_label |-> Label(k)]]

\* lines 229-234: to_csv writes a missing date or amount as an empty field
CsvCell(cell) == IF cell.kind \in {"NaT", "NaN", "None"} THEN [kind |-> "empty"] ELSE cell

CsvRow(r) == [date |-> CsvCell(r.date), categorie |-> r.categorie,
              valeur |-> CsvCell(r.valeur)]

\* line 231: the table that is exported
Exported(df, edited) == edited

ToCsv(rows) == [i \in 1..Len(rows) |-> CsvRow(rows[i])]

\* "with tab1": lines 148-234, when the file is read
LedgerView ==
    /\ pc = "tab1"
    /\ LET df == LoadLedger(source)
           df_filtered == FilterCategory(df, cat_choice)
           edited == Coerce(DataEditor(df_filtered, editor))
       IN  /\ df_ledger' = df
           /\ edited_df' = edited
           /\ df_ca_sum' = Aggregate(edited)
           /\ ledger_csv' = ToCsv(Exported(df, edited))
    /\ pc' = "done"
    /\ page' = page \cup LedgerElements
    /\ UNCHANGED <<button, prev_button, scenario_widgets, scenario_out, source, ledger_widgets>>

LedgerLoadFails_BeforeScenario ==
    /\ pc = "tab2"
    /\ pc' = "error"
    /\ page' = page \cup {"exception"}
    /\ UNCHANGED <<button, prev_button, scenario_widgets, scenario_out, source,
                   ledger_widgets, ledger_out>>

\* line 152 raises (the file is missing or cannot be parsed): the execution
\* stops there
LedgerLoadFails ==
    /\ pc = "tab1"
    /\ pc' = "error"
    /\ page' = page \cup {"exception"}
    /\ UNCHANGED <<button, prev_button, scenario_widgets, scenario_out, source, ledger_widgets,
                   ledger_out>>

(***************************************************************************)
(* Interactions with the ledger view, which is on the page once an         *)
(* execution has completed it.                                             *)
(***************************************************************************)
EditorDates == {Date(2024, 1, 15), Date(2024, 2, 15)}
EditorValeurs == {Num(1200), Num(1300)}
EditorCategories == {CA, Charges}

\* the rows of the editor on the page
Shown == IF editor.pristine THEN edited_df ELSE editor.rows

Edited(rows) ==
    /\ editor' = [pristine |-> FALSE, rows |-> rows]
    /\ button' = "none"
    /\ NewRun
    /\ UNCHANGED <<scenario_widgets, source, cat_choice>>

\* line 156: the editor gets another table and starts again from it
SelectCategory ==
    /\ pc = "done"
    /\ \E c \in {df_ledger[i].categorie : i \in 1..Len(df_ledger)} \ {cat_choice} :
          cat_choice' = c
    /\ editor' = [pristine |-> TRUE, rows |-> <<>>]
    /\ button' = "none"
    /\ NewRun
    /\ UNCHANGED <<scenario_widgets, source>>

\* line 168
EditDate ==
    /\ pc = "done"
    /\ \E i \in 1..Len(Shown) : \E d \in (EditorDates \cup {None}) \ {Shown[i].date} :
          Edited([Shown EXCEPT ![i].date = d])

\* line 169
EditValeur ==
    /\ pc = "done"
    /\ \E i \in 1..Len(Shown) : \E v \in (EditorValeurs \cup {None}) \ {Shown[i].valeur} :
          Edited([Shown EXCEPT ![i].valeur = v])

\* lines 162-163: every column of the table can be edited
EditCategorie ==
    /\ pc = "done"
    /\ \E i \in 1..Len(Shown) : \E c \in EditorCategories \ {Shown[i].categorie} :
          Edited([Shown EXCEPT ![i].categorie = c])

\* line 164: num_rows="dynamic"
AddRow ==
    /\ pc = "done"
    /\ Len(Shown) < MaxRows
    /\ Edited(Append(Shown, [date |-> None, categorie |-> NoCategorie, valeur |-> None]))

DeleteRow ==
    /\ pc = "done"
    /\ \E i \in 1..Len(Shown) :
          Edited(SubSeq(Shown, 1, i - 1) \o SubSeq(Shown, i + 1, Len(Shown)))

(***************************************************************************)
(* The file bp_forecast_tabulaire.csv is not part of the repository: these *)
(* are contents it can have.                                               *)
(***************************************************************************)
Entry(fields, cat, v) == [date |-> Text(fields), categorie |-> cat, valeur |-> Num(v)]

LedgerFiles ==
    { << Entry(<<15, 1, 2024>>, CA, 100),
         Entry(<<15, 1, 2024>>, CA, 250),
         Entry(<<15, 2, 2024>>, Charges, 2300) >>,
      << Entry(<<31, 2, 2024>>, CA, 1200),
         Entry(<<15, 1, 2024>>, CA, 2300),
         Entry(<<2024, 2, 15>>, Charges, -2500) >> }

Init ==
    /\ pc = "tab2"
    /\ page = {}
    /\ prev_button = "none"
    /\ button = "none"
    /\ slider_ca = WidgetDefault
    /\ slider_charges = WidgetDefault
    /\ checkbox_per_year = FALSE
    /\ input_ca = [y \in YEARS |-> WidgetDefault]
    /\ input_charges = [y \in YEARS |-> WidgetDefault]
    /\ global_ca_pct = NotRun
    /\ global_charges_pct = NotRun
    /\ use_per_year = NotRun
    /\ per_year_ca = NotRun
    /\ per_year_charges = NotRun
    /\ df_simu = NotRun
    /\ summary = NotRun
    /\ table = NotRun
    /\ csv = NotRun
    /\ source \in LedgerFiles
    /\ cat_choice = Categories(LoadLedger(source))[1]
    /\ editor = [pristine |-> TRUE, rows |-> <<>>]
    /\ df_ledger = NotRun
    /\ edited_df = NotRun
    /\ df_ca_sum = NotRun
    /\ ledger_csv = NotRun

\* the user works in the scenario view
Next ==
    \/ ScenarioView
    \/ LedgerView
    \/ LedgerLoadFails
    \/ MoveSliderCa
    \/ MoveSliderCharges
    \/ TogglePerYear
    \/ EditInputCa
    \/ EditInputCharges
    \/ PressCostCut
    \/ PressRevenueUp
    \/ Rerun

Spec == Init /\ [][Next]_vars

\* the user works in the ledger view
LedgerNext ==
    \/ ScenarioView
    \/ LedgerView
    \/ LedgerLoadFails
    \/ SelectCategory
    \/ EditDate
    \/ EditValeur
    \/ EditCategorie
    \/ AddRow
    \/ DeleteRow
    \/ Rerun

LedgerSpec == Init /\ [][LedgerNext]_vars

(***************************************************************************)
(* Properties of the scenario view.                                        *)
(***************************************************************************)
\* the table the claims give for global percentages g_rev, g_ch and the
\* values the widgets hold, in hundredths of a euro
ClaimedCa(y, g_rev) ==
    IF checkbox_per_year THEN base_ca(y) * (100 + input_ca[y])
    ELSE base_ca(y) * (100 + g_rev)

ClaimedCharges(y, g_ch) ==
    IF checkbox_per_year THEN base_charges(y) * (100 + input_charges[y])
    ELSE base_charges(y) * (100 + g_ch)

IsClaimedTable(g_rev, g_ch) ==
    \A y \in YEARS :
        /\ df_simu[y].ca_simu = ClaimedCa(y, g_rev)
        /\ df_simu[y].charges_simu = ClaimedCharges(y, g_ch)
        /\ df_simu[y].marge_simu = ClaimedCa(y, g_rev) - ClaimedCharges(y, g_ch)

\* C1: with per-year mode disabled, after any sequence of interactions, every
\* row has revenue_sim = revenue * (1 + g_rev/100), charges_sim = charges *
\* (1 + g_ch/100) and margin_sim = revenue_sim - charges_sim, g_rev and g_ch
\* being the effective global percentages of the current interaction (the
\* preset value when its button was pressed, the slider's value otherwise);
\* a row 1000 / 600 with +10 / -20 gives 1100, 480 and 620.
C1_GlobalScenario ==
    /\ ("dataframe" \in page /\ ~checkbox_per_year) =>
          LET g_rev == IF button = "revenue_up_10" THEN 10 ELSE slider_ca
              g_ch == IF button = "cost_cut_20" THEN -20 ELSE slider_charges
          IN  /\ use_per_year = FALSE
              /\ global_ca_pct = g_rev
              /\ global_charges_pct = g_ch
              /\ \A y \in YEARS :
                    /\ df_simu[y].ca = base_ca(y)
                    /\ df_simu[y].charges = base_charges(y)
                    /\ df_simu[y].ca_simu = base_ca(y) * (100 + g_rev)
                    /\ df_simu[y].charges_simu = base_charges(y) * (100 + g_ch)
                    /\ df_simu[y].marge_simu =
                          df_simu[y].ca_simu - df_simu[y].charges_simu
    /\ LET r == [annee |-> FirstYear, ca |-> 1000, charges |-> 600]
       IN  /\ CaSimu(r, 10, FALSE, Zeros) = 110000
           /\ ChargesSimu(r, -20, FALSE, Zeros) = 48000
           /\ MargeSimu(CaSimu(r, 10, FALSE, Zeros),
                        ChargesSimu(r, -20, FALSE, Zeros)) = 62000

C1_Witness ==
    /\ "dataframe" \in page
    /\ ~checkbox_per_year
    /\ button = "cost_cut_20"
    /\ slider_ca = SliderMax
    /\ slider_charges = SliderMin
    /\ df_simu[FirstYear].ca_simu = 811921 * 300
    /\ df_simu[FirstYear].charges_simu = 544417 * 80

\* C2: with per-year mode enabled, every row has revenue_sim = revenue *
\* (1 + per_year_revenue_pct[y]/100) and charges_sim = charges *
\* (1 + per_year_charges_pct[y]/100) whatever the global percentages are
\* (slider or preset), and a year whose per-year percentage is 0 keeps its
\* base amount.
C2_PerYearReplacesGlobal ==
    ("dataframe" \in page /\ checkbox_per_year) =>
        /\ use_per_year = TRUE
        /\ \A y \in YEARS :
              /\ df_simu[y].ca_simu = base_ca(y) * (100 + input_ca[y])
              /\ df_simu[y].charges_simu = base_charges(y) * (100 + input_charges[y])
              /\ input_ca[y] = 0 => df_simu[y].ca_simu = 100 * base_ca(y)
              /\ input_charges[y] = 0 => df_simu[y].charges_simu = 100 * base_charges(y)

C2_Witness ==
    /\ "dataframe" \in page
    /\ checkbox_per_year
    /\ button = "revenue_up_10"
    /\ global_ca_pct = 10
    /\ global_charges_pct = SliderMax
    /\ input_ca[FirstYear] = 5
    /\ input_ca[LastYear] = 0
    /\ df_simu[FirstYear].ca_simu = 811921 * 105
    /\ df_simu[LastYear].ca_simu = 100 * base_ca(LastYear)
    /\ df_simu[LastYear].charges_simu = 100 * base_charges(LastYear)

\* C3: whenever a row has revenue_sim = 0, the execution goes on and the
\* row's margin ratio is a non-finite value (an infinity or NaN), the marker
\* of an undefined ratio, in the table data, in the displayed table, in the
\* export and (for the last row) in the summary: never a finite number.
C3_UndefinedRatioExplicit ==
    "dataframe" \in page =>
        \A y \in YEARS :
            df_simu[y].ca_simu = 0 =>
                /\ ScenarioElements \subseteq page
                /\ df_simu[y].marge_pct_simu.kind \in {"inf", "-inf", "nan"}
                /\ table[y].text \in {"inf%", "-inf%", "nan%"}
                /\ csv[y].text \in {"inf", "-inf", ""}
                /\ y = LastYear => summary.text \in {"inf %", "-inf %", "nan %"}

C3_Witness ==
    /\ pc = "done"
    /\ df_simu[LastYear].ca_simu = 0
    /\ df_simu[LastYear].marge_pct_simu.kind = "-inf"
    /\ summary.text = "-inf %"
    /\ \E y \in YEARS :
          /\ df_simu[y].ca_simu = 0
          /\ df_simu[y].charges_simu = 0
          /\ csv[y].text = ""

\* C4: in the execution a preset press started, the named global percentage
\* is the preset's value, the other global percentage, the per-year flag and
\* the per-year percentages are what the widgets hold, and the table is the
\* one obtained with the slider set to the preset's value.
C4_PresetSetsOnlyNamed ==
    "dataframe" \in page =>
        /\ use_per_year = checkbox_per_year
        /\ per_year_ca = [y \in YEARS |-> IF checkbox_per_year THEN input_ca[y] ELSE 0]
        /\ per_year_charges =
              [y \in YEARS |-> IF checkbox_per_year THEN input_charges[y] ELSE 0]
        /\ button = "cost_cut_20" =>
              /\ global_charges_pct = -20
              /\ global_ca_pct = slider_ca
              /\ IsClaimedTable(slider_ca, -20)
        /\ button = "revenue_up_10" =>
              /\ global_ca_pct = 10
              /\ global_charges_pct = slider_charges
              /\ IsClaimedTable(10, slider_charges)

C4_Witness ==
    /\ "dataframe" \in page
    /\ button = "revenue_up_10"
    /\ ~checkbox_per_year
    /\ slider_ca = SliderMin
    /\ slider_charges = SliderMax
    /\ global_charges_pct = SliderMax
    /\ df_simu[FirstYear].ca_simu = 811921 * 110

\* C9: a failure to load the ledger file blocks only the ledger view: the
\* load is attempted only once the scenario view's table, summary and export
\* are on the page, a failed load leaves them there with the values the
\* widgets give, and that execution produces no ledger aggregate, chart or
\* export.
C9_LoadFailureBlocksLedgerOnly ==
    /\ pc = "tab2" => "exception" \notin page
    /\ (pc \in {"tab1", "error"} \/ "exception" \in page) =>
          /\ ScenarioElements \subseteq page
          /\ page \cap LedgerElements = {}
          /\ summary # NotRun
          /\ csv # NotRun
          /\ IsClaimedTable(IF button = "revenue_up_10" THEN 10 ELSE slider_ca,
                            IF button = "cost_cut_20" THEN -20 ELSE slider_charges)
          /\ df_ca_sum = NotRun
          /\ ledger_csv = NotRun
          /\ edited_df = NotRun

C9_Witness ==
    /\ pc = "error"
    /\ "exception" \in page
    /\ "scenario_simulation.csv" \in page
    /\ checkbox_per_year
    /\ input_ca[FirstYear] = 5
    /\ df_simu[FirstYear].ca_simu = 811921 * 105
    /\ ledger_csv = NotRun

\* C10: a preset is not persisted: a press never changes a slider's value,
\* an interaction that changes a widget starts an execution in which no
\* preset is pressed, in every execution whose press is not "cost cut 20"
\* (resp. "revenue +10") the effective charges (resp. revenue) percentage is
\* the slider's value, and the two presets are never both in effect.
C10_PresetNotPersisted ==
    /\ [][(pc' = "tab2" /\ button' # "none") =>
              (slider_ca' = slider_ca /\ slider_charges' = slider_charges)]_vars
    /\ [][(pc' = "tab2" /\ scenario_widgets' # scenario_widgets) =>
              button' = "none"]_vars
    /\ []("dataframe" \in page =>
              /\ button # "cost_cut_20" => global_charges_pct = slider_charges
              /\ button # "revenue_up_10" => global_ca_pct = slider_ca
              /\ global_charges_pct = slider_charges \/ global_ca_pct = slider_ca)

C10_Witness ==
    /\ "dataframe" \in page
    /\ prev_button = "cost_cut_20"
    /\ button = "none"
    /\ slider_charges = SliderMax
    /\ global_charges_pct = SliderMax
    /\ df_simu[FirstYear].charges_simu = 544417 * 300

(***************************************************************************)
(* Properties of the ledger view.                                          *)
(***************************************************************************)
RECURSIVE SumOf(_, _)
\* the sum of the amounts of the rows `idx` of `rows` that are not missing
SumOf(rows, idx) ==
    IF idx = {} THEN 0
    ELSE LET i == CHOOSE j \in idx : TRUE
         IN  (IF rows[i].valeur.kind = "num" THEN rows[i].valeur.v ELSE 0)
             + SumOf(rows, idx \ {i})

\* the rows of the edited table of category "Chiffre d'affaires" with a date
DatedCa(rows) ==
    {i \in 1..Len(rows) : rows[i].categorie = "Chiffre d'affaires"
                          /\ rows[i].date.kind = "date"}

\* C5: the aggregated series has exactly one point per distinct valid date
\* that carries an entry of category "Chiffre d'affaires" in the edited table,
\* its value is the sum of the non-missing amounts of these entries (100 and
\* 250 on one date give one point of 350), and a date that carries only
\* entries of other categories has no point.
C5_OnePointPerDateSummed ==
    pc = "done" =>
        LET idx == DatedCa(edited_df)
            dates == {edited_df[i].date : i \in idx}
        IN  /\ Len(df_ca_sum) = Cardinality(dates)
            /\ {df_ca_sum[j].date : j \in 1..Len(df_ca_sum)} = dates
            /\ \A j \in 1..Len(df_ca_sum) :
                  df_ca_sum[j].valeur =
                      SumOf(edited_df, {i \in idx : edited_df[i].date = df_ca_sum[j].date})
            /\ \A i \in 1..Len(edited_df) :
                  (/\ edited_df[i].date.kind = "date"
                   /\ \A k \in 1..Len(edited_df) :
                         edited_df[k].date = edited_df[i].date =>
                            edited_df[k].categorie # "Chiffre d'affaires")
                  => \A j \in 1..Len(df_ca_sum) : df_ca_sum[j].date # edited_df[i].date

C5_Witness ==
    /\ pc = "done"
    /\ Len(edited_df) = 2
    /\ edited_df[1].date = edited_df[2].date
    /\ edited_df[1].valeur = Num(100)
    /\ edited_df[2].valeur = Num(250)
    /\ Len(df_ca_sum) = 1
    /\ df_ca_sum[1].valeur = 350

C5_WitnessOtherCategory ==
    /\ pc = "done"
    /\ \E i, k \in 1..Len(edited_df) :
          /\ edited_df[i].categorie = Charges
          /\ edited_df[i].date.kind = "date"
          /\ edited_df[k].categorie = CA
          /\ edited_df[k].date.kind = "date"
          /\ edited_df[k].date # edited_df[i].date
          /\ edited_df[k].valeur = NaN
    /\ Len(df_ca_sum) = 1
    /\ df_ca_sum[1].valeur = 0

\* C6 as stated: value_k is value/1000 rounded to the nearest integer, the
\* label is "<value_k> K€", and a value of 2500 gives value_k = 3 and the
\* label "3 K€" (350 gives 0 and "0 K€").
C6_HalfRoundsUp ==
    pc = "done" =>
        \A j \in 1..Len(df_ca_sum) :
            LET p == df_ca_sum[j]
            IN  /\ 1000 * p.valeur_k - 500 <= p.valeur
                /\ p.valeur <= 1000 * p.valeur_k + 500
                /\ p.valeur_label = ToString(p.valeur_k) \o " K€"
                /\ p.valeur = 2500 => (p.valeur_k = 3 /\ p.valeur_label = "3 K€")
                /\ p.valeur = 350 => (p.valeur_k = 0 /\ p.valeur_label = "0 K€")

\* C6 amended: value_k is value/1000 rounded to the nearest integer, a value
\* half way between two integers going to the even one, and the label is
\* "<value_k> K€": 2500 gives value_k = 2 and the label "2 K€", 3500 gives 4
\* and "4 K€", 350 gives 0 and "0 K€".
C6_HalfRoundsToEven ==
    pc = "done" =>
        \A j \in 1..Len(df_ca_sum) :
            LET p == df_ca_sum[j]
            IN  /\ 1000 * p.valeur_k - 500 <= p.valeur
                /\ p.valeur <= 1000 * p.valeur_k + 500
                /\ (p.valeur = 1000 * p.valeur_k - 500 \/ p.valeur = 1000 * p.valeur_k + 500)
                      => p.valeur_k % 2 = 0
                /\ p.valeur_label = ToString(p.valeur_k) \o " K€"
                /\ p.valeur = 2500 => (p.valeur_k = 2 /\ p.valeur_label = "2 K€")
                /\ p.valeur = 3500 => (p.valeur_k = 4 /\ p.valeur_label = "4 K€")
                /\ p.valeur = 350 => (p.valeur_k = 0 /\ p.valeur_label = "0 K€")

C6_Witness ==
    /\ pc = "done"
    /\ Len(edited_df) = 2
    /\ edited_df[1].valeur = Num(1200)
    /\ edited_df[2].valeur = Num(1300)
    /\ Len(df_ca_sum) = 1
    /\ df_ca_sum[1].valeur = 2500
    /\ df_ca_sum[1].valeur_k = 2
    /\ df_ca_sum[1].valeur_label = "2 K€"

\* the date texts of the modelled files that are no day/month/year date
UnparseableTexts == {<<31, 2, 2024>>, <<2024, 2, 15>>}

\* C7: an entry whose date cannot be parsed, at load or after an edit, gets a
\* missing date, the execution raises no error and completes the ledger view,
\* and the aggregated points are those of the same table without the entries
\* whose date is missing.
C7_UnparseableDateExcluded ==
    pc = "done" =>
        /\ "exception" \notin page
        /\ LedgerElements \subseteq page
        /\ \A i \in 1..Len(source) :
              source[i].date.fields \in UnparseableTexts => df_ledger[i].date = NaT
        /\ ~editor.pristine =>
              \A i \in 1..Len(editor.rows) :
                  editor.rows[i].date \in {None, NaT} => edited_df[i].date = NaT
        /\ \A j \in 1..Len(df_ca_sum) : df_ca_sum[j].date.kind = "date"
        /\ df_ca_sum = Aggregate(SelectSeq(edited_df, LAMBDA r : r.date # NaT))

C7_Witness ==
    /\ pc = "done"
    /\ \E i \in 1..Len(source) :
          /\ source[i].date.fields = <<31, 2, 2024>>
          /\ df_ledger[i].date = NaT
    /\ \E i, k \in 1..Len(edited_df) :
          /\ edited_df[i].date = NaT
          /\ edited_df[i].categorie = CA
          /\ edited_df[i].valeur = Num(1200)
          /\ edited_df[k].categorie = CA
          /\ edited_df[k].date = Date(2024, 1, 15)
    /\ Len(df_ca_sum) = 1
    /\ df_ca_sum[1].valeur = 2300

\* C8: the ledger export holds the full edited ledger: every loaded entry of
\* a category other than the selected one, unchanged, together with the
\* edited rows of the selected category.
C8_ExportHoldsAllCategories ==
    pc = "done" =>
        /\ \A i \in 1..Len(df_ledger) :
              df_ledger[i].categorie # cat_choice =>
                  \E j \in 1..Len(ledger_csv) : ledger_csv[j] = CsvRow(df_ledger[i])
        /\ \A k \in 1..Len(edited_df) :
              \E j \in 1..Len(ledger_csv) : ledger_csv[j] = CsvRow(edited_df[k])

====
